---- MODULE Spec2Model ----
(***************************************************************************)
(* Model of the status-polling and confirmation logic of the Flows         *)
(* Terraform provider.  One behaviour of Spec is one invocation of one     *)
(* resource operation (a Create, Update or Delete handler) against a       *)
(* server whose responses are chosen nondeterministically.                 *)
(***************************************************************************)
EXTENDS Integers, Sequences, FiniteSets, TLC

\* ------------------------------------------------------------------------
\* Program constants

maxPollRetries == 60

\* ------------------------------------------------------------------------
\* The remote API as the provider sees it

\* Status strings the server may return: the documented vocabulary plus
\* strings outside of it (empty, unrecognized, wrong case).
KnownStatuses ==
    {"draft", "in_progress", "ready", "failed", "drifted",
     "draining", "draining_failed", "drained"}

UnknownStatuses == {"", "bogus_status", "Ready"}

Statuses == KnownStatuses \cup UnknownStatuses

\* err.Error() of a failed CallFlowsAPI: the server's error field verbatim,
\* or the client's own message for a non-200 response.
NotFound == "not found"

StatusCodeError == "unexpected status code: 500"

AppInstallationNotADraft == "app installation is not a draft"

EntityNotADraft == "entity is not a draft"

FetchErrors == {NotFound, StatusCodeError}

\* A response to a status fetch: err = "nil" means the call succeeded.
StatusResponses ==
    [err : {"nil"}, status : Statuses] \cup [err : FetchErrors, status : {""}]

\* Errors of the confirm endpoints ("nil": success).
ConfirmResults(operation) ==
    IF operation \in {"EntityConfirmation.Create", "EntityLifecycleConfirmation.Create"}
    THEN {"nil", EntityNotADraft, StatusCodeError}
    ELSE {"nil", AppInstallationNotADraft, StatusCodeError}

\* Responses of the mutation endpoints of an app installation.
MutationResponses ==
    [err : {"nil"}, draft : BOOLEAN] \cup [err : {StatusCodeError}, draft : {FALSE}]

CreateResponses ==
    [err : {"nil"}, id : {"inst-1"}] \cup [err : {StatusCodeError}, id : {""}]

DeleteResults == {"nil", StatusCodeError}

\* ------------------------------------------------------------------------
\* Operations and their inputs

Operations ==
    {"AppInstallationConfirmation.Create",
     "EntityConfirmation.Create",
     "EntityLifecycleConfirmation.Create",
     "AppInstallation.Create",
     "AppInstallation.Update",
     "AppInstallation.Delete",
     "AppInstallation.ValidateConfig",
     "AppInstallation.Read",
     "AppInstallationConfirmation.Read",
     "AppInstallationWaitForReady.Read",
     "EntityConfirmation.Read",
     "EntityLifecycleConfirmation.Read",
     "Flow.Create",
     "Flow.ModifyPlan",
     "Flow.Read",
     "CallFlowsAPI"}

\* The Read handlers that fetch a status or the installation itself.
ReadOperations ==
    {"AppInstallation.Read",
     "AppInstallationConfirmation.Read",
     "AppInstallationWaitForReady.Read",
     "EntityConfirmation.Read",
     "EntityLifecycleConfirmation.Read"}

EntityReads == {"EntityConfirmation.Read", "EntityLifecycleConfirmation.Read"}

ConfirmationCreates ==
    {"AppInstallationConfirmation.Create",
     "EntityConfirmation.Create",
     "EntityLifecycleConfirmation.Create"}

DefaultPlan ==
    [confirm |-> TRUE, waitForReady |-> TRUE, configEmpty |-> TRUE,
     nameChanged |-> FALSE, appChanged |-> FALSE, configChanged |-> FALSE]

\* The plan (and, for Update, how it differs from the prior state) an
\* operation can be invoked with.
Plans(operation) ==
    CASE operation = "AppInstallationConfirmation.Create" ->
           {[DefaultPlan EXCEPT !.waitForReady = w] : w \in BOOLEAN}
      [] operation = "AppInstallation.Create" ->
           {[DefaultPlan EXCEPT !.confirm = c, !.waitForReady = w, !.configEmpty = e] :
               c \in BOOLEAN, w \in BOOLEAN, e \in BOOLEAN}
      [] operation = "AppInstallation.Update" ->
           {p \in [confirm : BOOLEAN, waitForReady : BOOLEAN, configEmpty : BOOLEAN,
                   nameChanged : BOOLEAN, appChanged : BOOLEAN,
                   configChanged : BOOLEAN] :
               (~p.configChanged) => p.configEmpty}
      [] OTHER -> {DefaultPlan}

FirstStep(operation) ==
    CASE operation \in ConfirmationCreates -> "initial_fetch"
      [] operation = "AppInstallation.Create" -> "create"
      [] operation = "AppInstallation.Update" -> "update_metadata"
      [] operation = "AppInstallation.Delete" -> "delete"
      [] operation = "AppInstallation.ValidateConfig" -> "validate"
      [] operation \in ReadOperations -> "read"
      [] operation = "Flow.Create" -> "flow_create"
      [] operation = "Flow.ModifyPlan" -> "flow_modify_plan"
      [] operation = "Flow.Read" -> "flow_read"
      [] operation = "CallFlowsAPI" -> "call"

\* Terraform state of the resource at the start of the operation: null for a
\* Create, the prior state for Update, Delete and Read.
InitialState(operation) ==
    IF operation \in {"AppInstallation.Update", "AppInstallation.Delete", "Flow.Read"}
                      \cup ReadOperations
    THEN [present |-> "set", id |-> "inst-1", status |-> "null"]
    ELSE [present |-> "empty", id |-> "", status |-> "null"]

\* Keys and values of config_fields maps ("null": a null element).
Keys == {"a", "b"}

FieldMap(keys, v) == [k \in keys |-> v]

EmptyFields == FieldMap({}, "x")

\* config_fields of the prior state.
PriorFieldMaps ==
    {EmptyFields, FieldMap({"a"}, "x"), FieldMap({"a", "b"}, "x")}

\* config_fields of the plan.
PlannedFieldMaps ==
    {EmptyFields, FieldMap({"a"}, "x"), FieldMap({"a"}, "null")}

\* ConfigFields of a GetAppInstallationResponse.
ServerFieldMaps ==
    {EmptyFields} \cup {FieldMap(ks, v) : ks \in (SUBSET Keys) \ {{}}, v \in {"x", "y"}}

NoFields ==
    [prior |-> EmptyFields, planned |-> EmptyFields, state |-> EmptyFields,
     server |-> EmptyFields]

\* The config_fields an operation starts with: prior state and plan agree
\* with the plan's configChanged and configEmpty.
Fields(operation, p) ==
    CASE operation = "AppInstallation.Update" ->
           {[NoFields EXCEPT !.prior = pr, !.planned = pl, !.state = pr] :
               <<pr, pl>> \in
                  {c \in PriorFieldMaps \X PlannedFieldMaps :
                      /\ p.configChanged = (c[1] # c[2])
                      /\ p.configChanged => (p.configEmpty = (DOMAIN c[2] = {}))}}
      [] operation = "AppInstallation.Create" ->
           {[NoFields EXCEPT !.planned = pl] :
               pl \in {m \in PlannedFieldMaps : p.configEmpty = (DOMAIN m = {})}}
      [] operation = "AppInstallation.Read" ->
           {[NoFields EXCEPT !.prior = pr, !.state = pr] : pr \in PriorFieldMaps}
      [] OTHER -> {NoFields}

\* An error message as the sequence of its parts; <<>> is a nil error.
NoError == <<>>

\* strings.Contains(e, sub) for a message e and a one-part substring sub.
Contains(e, sub) == \E k \in 1..Len(e) : e[k] = sub

\* fmt.Errorf("unable to get flow details: %w", err)
WrapFlowDetailsError(e) == <<"unable to get flow details: ">> \o e

\* Errors CallFlowsAPI can return to the Flow handlers.
FlowCallErrors ==
    {<<"not found">>, <<"unexpected status code: 500">>, <<"internal error">>,
     <<"plan failed: ", "internal error", " (timeout)">>}

\* Attributes of a flow in the prior state.
FlowState ==
    [name |-> "n0", project |-> "p0", definition |-> "d0", mapping |-> "m0"]

\* Attributes of a flow in the configuration; definition and mapping can be
\* unknown.
FlowConfigs ==
    [name : {"n0", "n1"}, project : {"p0", "p1"},
     definition : {"d0", "d1", "unknown"}, mapping : {"m0", "unknown"}]

\* A plan_changes response: the error, the number of operations and whether
\* a readablePlan came with it.
PlanChangesResponses ==
    [err : {NoError}, ops : {0, 1}, readable : BOOLEAN]
        \cup [err : FlowCallErrors, ops : {0}, readable : {FALSE}]

NoFlow ==
    [stateId |-> "null", plannedId |-> "unknown", data |-> FlowState,
     cfg |-> FlowState, planned |-> FlowState, planCalled |-> FALSE,
     planResp |-> [err |-> NoError, ops |-> 0, readable |-> FALSE],
     exportErr |-> <<"unset">>, wrote |-> FALSE]

\* What a Flow handler starts with: ModifyPlan gets the prior state, the
\* configuration and the plan Terraform proposed from it; Read gets the prior
\* state, whose definition can be null.
Flows(operation) ==
    CASE operation = "Flow.ModifyPlan" ->
           {[NoFlow EXCEPT !.stateId = sid, !.plannedId = pid, !.cfg = c, !.planned = c] :
               sid \in {"null", "flow-1"}, pid \in {"unknown", "flow-1"},
               c \in FlowConfigs}
      [] operation = "Flow.Read" ->
           {[NoFlow EXCEPT !.stateId = "flow-1", !.plannedId = "flow-1",
                           !.data.definition = d] : d \in {"null", "d0"}}
      [] OTHER -> {NoFlow}

\* http.StatusOK
StatusOK == 200

StatusCodes == {StatusOK, 404, 500}

\* An HTTP exchange: whether a response body was received, whether it
\* decodes as the JSON envelope, its error field and the status code.
HttpResponses ==
    {h \in [received : BOOLEAN, decodes : BOOLEAN,
             errorField : {"", NotFound, "boom"}, code : StatusCodes] :
        /\ (~h.received) => (~h.decodes /\ h.code = StatusOK)
        /\ (~h.decodes) => h.errorField = ""}

NoApi ==
    [http |-> [received |-> FALSE, decodes |-> FALSE, errorField |-> "",
               code |-> StatusOK],
     result |-> [data |-> "nil", err |-> "unset"]]

Apis(operation) ==
    IF operation = "CallFlowsAPI"
    THEN {[NoApi EXCEPT !.http = h] : h \in HttpResponses}
    ELSE {NoApi}

\* What the configuration can hold for a boolean attribute: "null" when the
\* attribute is not set, "unknown" when its value is not known yet.
ConfigValues == {"null", "unknown", "true", "false"}

UnsetConfig == [confirm |-> "null", waitForReady |-> "null"]

\* req.Config as the validator receives it.
Configs(operation) ==
    IF operation = "AppInstallation.ValidateConfig"
    THEN [confirm : ConfigValues, waitForReady : ConfigValues]
    ELSE {UnsetConfig}

\* ------------------------------------------------------------------------
\* State

VARIABLES
    op,                  \* the operation being executed
    plan,                \* its input
    config,              \* req.Config of the validator (confirm, wait_for_ready)
    createdId,           \* the id the create call returned ("unset" before)
    drainingSeen,        \* number of "draining" statuses a poll loop fetched
    calls,               \* the create, mutation and confirm requests sent so far
    fields,              \* config_fields: prior state, plan, resp.State, server
    flow,                \* a Flow handler's request and response values
    api,                 \* CallFlowsAPI's HTTP exchange and its result
    pc,                  \* position in the handler
    lastResp,            \* the latest status response received
    initStatus,          \* statusResp.Status of the first fetch ("unset" before)
    status,              \* the poll loop's local status / finalStatus
    i,                   \* the poll loop's counter
    ret,                 \* value returned by WaitForAppInstallationReady
    canConfirm,          \* Update's local canConfirm
    state,               \* resp.State
    diags,               \* resp.Diagnostics
    fetches,             \* number of status fetches made by the operation
    pollFetches,         \* number of status fetches made by the poll loop
    sleeps,              \* number of time.Sleep calls
    transSeen,           \* number of "draft"/"in_progress" statuses a poll loop fetched
    confirms,            \* number of confirm calls issued
    confirmErr,          \* result of the confirm call ("unset" before)
    fetchesAfterConfirm, \* status fetches made after the confirm call
    draftFetched         \* a status fetch of this operation returned "draft"

vars ==
    <<op, plan, config, createdId, drainingSeen, calls, fields, flow, api, pc,
      lastResp, initStatus, status, i, ret, canConfirm, state,
      diags, fetches, pollFetches, sleeps, transSeen, confirms, confirmErr,
      fetchesAfterConfirm, draftFetched>>

NoResp == [err |-> "unset", status |-> ""]

Init ==
    /\ op \in Operations
    /\ plan \in Plans(op)
    /\ config \in Configs(op)
    /\ createdId = "unset"
    /\ drainingSeen = 0
    /\ calls = <<>>
    /\ fields \in Fields(op, plan)
    /\ flow \in Flows(op)
    /\ api \in Apis(op)
    /\ pc = FirstStep(op)
    /\ lastResp = NoResp
    /\ initStatus = "unset"
    /\ status = ""
    /\ i = 0
    /\ ret = "unset"
    /\ canConfirm = FALSE
    /\ state = InitialState(op)
    /\ diags = <<>>
    /\ fetches = 0
    /\ pollFetches = 0
    /\ sleeps = 0
    /\ transSeen = 0
    /\ confirms = 0
    /\ confirmErr = "unset"
    /\ fetchesAfterConfirm = 0
    /\ draftFetched = FALSE

\* ------------------------------------------------------------------------
\* Diagnostics

AddError(d, summary, st) ==
    Append(d, [severity |-> "error", summary |-> summary, status |-> st])

AddWarning(d, summary) ==
    Append(d, [severity |-> "warning", summary |-> summary, status |-> "-"])

HasError(d) == \E k \in 1..Len(d) : d[k].severity = "error"


\* ------------------------------------------------------------------------
\* Bookkeeping of remote calls (observation only; no handler reads it)

\* A status fetch answered by resp; inLoop tells whether a poll loop made it.
RecordFetch(resp, inLoop) ==
    /\ lastResp' = resp
    /\ fetches' = fetches + 1
    /\ pollFetches' = IF inLoop THEN pollFetches + 1 ELSE pollFetches
    /\ fetchesAfterConfirm' =
          IF confirms > 0 THEN fetchesAfterConfirm + 1 ELSE fetchesAfterConfirm
    /\ draftFetched' = (draftFetched \/ (resp.err = "nil" /\ resp.status = "draft"))
    /\ transSeen' =
          IF inLoop /\ resp.err = "nil" /\ resp.status \in {"draft", "in_progress"}
          THEN transSeen + 1 ELSE transSeen
    /\ drainingSeen' =
          IF inLoop /\ resp.err = "nil" /\ resp.status = "draining"
          THEN drainingSeen + 1 ELSE drainingSeen

NoFetch ==
    UNCHANGED <<lastResp, fetches, pollFetches, fetchesAfterConfirm, draftFetched,
                transSeen, drainingSeen>>

\* A request as the log keeps it: the endpoint, the error it answered
\* ("nil": none), the draft flag of the response, the config fields it carried.
Call(name, e, draft, m) == [call |-> name, err |-> e, draft |-> draft, fields |-> m]

\* A create or mutation request answered by r.
RecordCall(name, r, m) ==
    calls' = Append(calls, Call(name, r.err, IF name = "create" THEN FALSE ELSE r.draft, m))

\* A confirm call answered by e.
RecordConfirm(e) ==
    /\ confirms' = confirms + 1
    /\ confirmErr' = e
    /\ calls' = Append(calls, Call("confirm", e, FALSE, EmptyFields))

NoConfirm == UNCHANGED <<confirms, confirmErr>>

NoPoll == UNCHANGED <<status, i, ret, sleeps>>

\* ------------------------------------------------------------------------
\* ConfirmAppInstallation and WaitForAppInstallationReady (shared helpers)

\* The error test of ConfirmAppInstallation: TRUE when the error is fatal.
ConfirmAppInstallationFails(e) ==
    e # "nil" /\ e # AppInstallationNotADraft

\* ConfirmAppInstallation after its confirm call returned e: the bool it
\* returns and the diagnostics it leaves.
ConfirmAppInstallation(e, d) ==
    IF ConfirmAppInstallationFails(e)
    THEN [ok |-> FALSE, diags |-> AddError(d, "Client Error", "-")]
    ELSE [ok |-> TRUE, diags |-> d]

\* Variant: "failed" handled like "ready".
WaitForAppInstallationReadySwitch_FailedIsReady(s) ==
    CASE s \in {"ready", "failed"} -> "ready"
      [] s \in {"drifted", "draining_failed", "draining", "drained"} -> "terminal"
      [] s \in {"draft", "in_progress"} -> "transitional"
      [] OTHER -> "unknown"

\* Variant: "draining" handled as under the deletion policy (transitional).
WaitForAppInstallationReadySwitch_DrainingTransitional(s) ==
    CASE s = "ready" -> "ready"
      [] s \in {"failed", "drifted", "draining_failed", "drained"} -> "terminal"
      [] s \in {"draft", "in_progress", "draining"} -> "transitional"
      [] OTHER -> "unknown"

\* The switch on the fetched status in WaitForAppInstallationReady.
WaitForAppInstallationReadySwitch(s) ==
    CASE s = "ready" -> "ready"
      [] s \in {"failed", "drifted", "draining_failed", "draining", "drained"} -> "terminal"
      [] s \in {"draft", "in_progress"} -> "transitional"
      [] OTHER -> "unknown"

\* Variant: off-by-one loop bound.
WaitForAppInstallationReadyLoops_OffByOne(n) == n <= maxPollRetries

\* The loop condition of `for i := range maxPollRetries`.
WaitForAppInstallationReadyLoops(n) == n < maxPollRetries

\* What AppInstallationConfirmationResource.Create does with the value r
\* returned by WaitForAppInstallationReady.
AppInstallationConfirmation_AfterWait(st, r) ==
    IF r # "" THEN [st EXCEPT !.present = "set", !.status = r] ELSE st

\* The caller's code after WaitForAppInstallationReady returned r.
AfterWait(operation, st, r) ==
    IF operation = "AppInstallationConfirmation.Create"
    THEN AppInstallationConfirmation_AfterWait(st, r)
    ELSE st

\* One iteration of the loop of WaitForAppInstallationReady; when the
\* function returns, the caller's remaining code runs in the same step.
WaitForAppInstallationReady_Attempt ==
    /\ pc = "wait_ready"
    /\ WaitForAppInstallationReadyLoops(i)
    /\ \E resp \in StatusResponses :
          /\ RecordFetch(resp, TRUE)
          /\ IF resp.err # "nil"
             THEN /\ diags' = AddError(diags, "Client Error", "-")
                  /\ ret' = ""
                  /\ state' = AfterWait(op, state, "")
                  /\ pc' = "done"
                  /\ UNCHANGED <<status, i, sleeps>>
             ELSE LET c == WaitForAppInstallationReadySwitch(resp.status) IN
                  /\ status' = resp.status
                  /\ CASE c = "ready" ->
                            /\ ret' = resp.status
                            /\ state' = AfterWait(op, state, resp.status)
                            /\ pc' = "done"
                            /\ UNCHANGED <<diags, i, sleeps>>
                       [] c = "terminal" ->
                            /\ diags' = AddError(diags, "App Installation Failed", resp.status)
                            /\ ret' = resp.status
                            /\ state' = AfterWait(op, state, resp.status)
                            /\ pc' = "done"
                            /\ UNCHANGED <<i, sleeps>>
                       [] c = "transitional" ->
                            /\ sleeps' = sleeps + 1
                            /\ i' = i + 1
                            /\ UNCHANGED <<diags, ret, state, pc>>
                       [] OTHER ->
                            /\ diags' = AddError(diags, "Unknown App Installation Status", resp.status)
                            /\ ret' = resp.status
                            /\ state' = AfterWait(op, state, resp.status)
                            /\ pc' = "done"
                            /\ UNCHANGED <<i, sleeps>>
    /\ NoConfirm
    /\ UNCHANGED <<op, plan, config, flow, api, calls, fields, createdId, initStatus, canConfirm>>

\* The loop of WaitForAppInstallationReady ran out of attempts.
WaitForAppInstallationReady_Timeout ==
    /\ pc = "wait_ready"
    /\ ~WaitForAppInstallationReadyLoops(i)
    /\ diags' = AddError(diags, "App Installation Confirmation Timeout", status)
    /\ ret' = ""
    /\ state' = AfterWait(op, state, "")
    /\ pc' = "done"
    /\ NoFetch /\ NoConfirm
    /\ UNCHANGED <<op, plan, config, flow, api, calls, fields, createdId, initStatus, status, i, canConfirm, sleeps>>

\* ------------------------------------------------------------------------
\* AppInstallationConfirmationResource.Create

\* The test that lets Create go on to the confirm call.
AppInstallationConfirmation_IsDraft(s) == s = "draft"

\* The initial status fetch, the state write and the draft test.
AppInstallationConfirmation_InitialFetch ==
    /\ op = "AppInstallationConfirmation.Create"
    /\ pc = "initial_fetch"
    /\ \E resp \in StatusResponses :
          /\ RecordFetch(resp, FALSE)
          /\ IF resp.err # "nil"
             THEN /\ IF resp.err = NotFound
                     THEN /\ state' = [state EXCEPT !.present = "removed"]
                          /\ diags' = diags
                     ELSE /\ diags' = AddError(diags, "Client Error", "-")
                          /\ state' = state
                  /\ pc' = "done"
                  /\ UNCHANGED initStatus
             ELSE /\ initStatus' = resp.status
                  /\ state' = [state EXCEPT !.present = "set", !.status = resp.status]
                  /\ diags' = diags
                  /\ pc' = IF AppInstallationConfirmation_IsDraft(resp.status)
                           THEN "confirm" ELSE "done"
    /\ NoConfirm /\ NoPoll
    /\ UNCHANGED <<op, plan, config, flow, api, calls, fields, createdId, canConfirm>>

\* Variant: a failed confirm call is retried.
AppInstallationConfirmation_AfterConfirm_RetryOnError(p, ok) ==
    IF ~ok THEN "confirm"
    ELSE IF p.waitForReady THEN "wait_ready" ELSE "done"

\* Variant: wait_for_ready ignored, the poller always runs.
AppInstallationConfirmation_AfterConfirm_AlwaysWait(p, ok) ==
    IF ~ok THEN "done" ELSE "wait_ready"

\* Where Create goes after ConfirmAppInstallation returned ok: it returns
\* when the call failed, and waits only when wait_for_ready is set.
AppInstallationConfirmation_AfterConfirm(p, ok) ==
    IF ~ok THEN "done"
    ELSE IF p.waitForReady THEN "wait_ready" ELSE "done"

\* The ConfirmAppInstallation call and the wait_for_ready test.
AppInstallationConfirmation_Confirm ==
    /\ op = "AppInstallationConfirmation.Create"
    /\ pc = "confirm"
    /\ \E e \in ConfirmResults(op) :
          LET r == ConfirmAppInstallation(e, diags) IN
          /\ RecordConfirm(e)
          /\ diags' = r.diags
          /\ pc' = AppInstallationConfirmation_AfterConfirm(plan, r.ok)
    /\ NoFetch /\ NoPoll
    /\ UNCHANGED <<op, plan, config, flow, api, fields, createdId, initStatus, canConfirm, state>>

\* ------------------------------------------------------------------------
\* EntityConfirmationResource.Create and EntityLifecycleConfirmationResource.Create
\* (two copies of the same handler; they differ in the diagnostics' titles)

EntityCreates == {"EntityConfirmation.Create", "EntityLifecycleConfirmation.Create"}

\* Variant: confirm whenever the entity is not yet ready.
Entity_IsDraft_NotReady(s) == s # "ready"

\* `if statusResp.Status == "draft"`: the test guarding the confirm call.
Entity_IsDraft(s) == s = "draft"

\* The `if err != nil` after the confirm call: TRUE when the error is fatal.
Entity_ConfirmFails(e) == e # "nil"

\* Variant: "drifted" handled like "ready".
EntityConfirmationSwitch_DriftedIsReady(s) ==
    CASE s \in {"ready", "drifted"} -> "ready"
      [] s \in {"failed", "draining_failed", "draining", "drained"} -> "terminal"
      [] s \in {"draft", "in_progress"} -> "transitional"
      [] OTHER -> "unknown"

\* Variant: the "ready" case label misspelled, so "ready" reaches default.
EntityConfirmationSwitch_ReadyMisspelled(s) ==
    CASE s = "Ready" -> "ready"
      [] s \in {"failed", "drifted", "draining_failed", "draining", "drained"} -> "terminal"
      [] s \in {"draft", "in_progress"} -> "transitional"
      [] OTHER -> "unknown"

\* The switch on finalStatus in EntityConfirmationResource.Create.
EntityConfirmationSwitch(s) ==
    CASE s = "ready" -> "ready"
      [] s \in {"failed", "drifted", "draining_failed", "draining", "drained"} -> "terminal"
      [] s \in {"draft", "in_progress"} -> "transitional"
      [] OTHER -> "unknown"

\* Variant: the default case keeps polling instead of failing.
EntityLifecycleConfirmationSwitch_UnknownRetried(s) ==
    CASE s = "ready" -> "ready"
      [] s \in {"failed", "drifted", "draining_failed", "draining", "drained"} -> "terminal"
      [] OTHER -> "transitional"

\* The switch on finalStatus in EntityLifecycleConfirmationResource.Create.
EntityLifecycleConfirmationSwitch(s) ==
    CASE s = "ready" -> "ready"
      [] s \in {"failed", "drifted", "draining_failed", "draining", "drained"} -> "terminal"
      [] s \in {"draft", "in_progress"} -> "transitional"
      [] OTHER -> "unknown"

EntitySwitch(operation, s) ==
    IF operation = "EntityConfirmation.Create"
    THEN EntityConfirmationSwitch(s)
    ELSE EntityLifecycleConfirmationSwitch(s)

\* `i < maxRetries` with maxRetries := 60.
Entity_Loops(n) == n < maxPollRetries

Entity_FailedTitle(operation) ==
    IF operation = "EntityConfirmation.Create"
    THEN "Entity Confirmation Failed"
    ELSE "Entity Lifecycle Confirmation Failed"

Entity_TimeoutTitle(operation) ==
    IF operation = "EntityConfirmation.Create"
    THEN "Entity Confirmation Timeout"
    ELSE "Entity Lifecycle Confirmation Timeout"

\* The first status fetch and the draft test.
Entity_InitialFetch ==
    /\ op \in EntityCreates
    /\ pc = "initial_fetch"
    /\ \E resp \in StatusResponses :
          /\ RecordFetch(resp, FALSE)
          /\ IF resp.err # "nil"
             THEN /\ diags' = AddError(diags, "Client Error", "-")
                  /\ pc' = "done"
                  /\ UNCHANGED initStatus
             ELSE /\ initStatus' = resp.status
                  /\ diags' = diags
                  /\ pc' = IF Entity_IsDraft(resp.status) THEN "confirm" ELSE "poll"
    /\ NoConfirm /\ NoPoll
    /\ UNCHANGED <<op, plan, config, flow, api, calls, fields, createdId, canConfirm, state>>

\* The confirm call.
Entity_Confirm ==
    /\ op \in EntityCreates
    /\ pc = "confirm"
    /\ \E e \in ConfirmResults(op) :
          /\ RecordConfirm(e)
          /\ IF Entity_ConfirmFails(e)
             THEN /\ diags' = AddError(diags, "Client Error", "-")
                  /\ pc' = "done"
             ELSE /\ diags' = diags
                  /\ pc' = "poll"
    /\ NoFetch /\ NoPoll
    /\ UNCHANGED <<op, plan, config, flow, api, fields, createdId, initStatus, canConfirm, state>>

\* One iteration of the poll loop.
Entity_Attempt ==
    /\ op \in EntityCreates
    /\ pc = "poll"
    /\ Entity_Loops(i)
    /\ \E resp \in StatusResponses :
          /\ RecordFetch(resp, TRUE)
          /\ IF resp.err # "nil"
             THEN /\ diags' = AddError(diags, "Client Error", "-")
                  /\ pc' = "done"
                  /\ UNCHANGED <<status, i, sleeps, state>>
             ELSE LET c == EntitySwitch(op, resp.status) IN
                  /\ status' = resp.status
                  /\ CASE c = "ready" ->
                            /\ state' = [state EXCEPT !.present = "set", !.status = resp.status]
                            /\ pc' = "done"
                            /\ UNCHANGED <<diags, i, sleeps>>
                       [] c = "terminal" ->
                            /\ diags' = AddError(diags, Entity_FailedTitle(op), resp.status)
                            /\ pc' = "done"
                            /\ UNCHANGED <<i, sleeps, state>>
                       [] c = "transitional" ->
                            /\ sleeps' = sleeps + 1
                            /\ i' = i + 1
                            /\ UNCHANGED <<diags, state, pc>>
                       [] OTHER ->
                            /\ diags' = AddError(diags, "Unknown Entity Status", resp.status)
                            /\ pc' = "done"
                            /\ UNCHANGED <<i, sleeps, state>>
    /\ NoConfirm
    /\ UNCHANGED <<op, plan, config, flow, api, calls, fields, createdId, initStatus, canConfirm, ret>>

\* The poll loop ran out of attempts.
Entity_Timeout ==
    /\ op \in EntityCreates
    /\ pc = "poll"
    /\ ~Entity_Loops(i)
    /\ diags' = AddError(diags, Entity_TimeoutTitle(op), status)
    /\ pc' = "done"
    /\ NoFetch /\ NoConfirm
    /\ UNCHANGED <<op, plan, config, flow, api, calls, fields, createdId, initStatus, status, i, ret, canConfirm, state, sleeps>>

\* ------------------------------------------------------------------------
\* AppInstallationResource.Create

\* The wait_for_ready block that ends Create and Update: where the handler
\* goes, given the planned wait_for_ready and confirm.
AppInstallation_WaitTarget(p) ==
    IF p.waitForReady /\ p.confirm THEN "wait_ready" ELSE "done"

\* The diagnostics after the wait_for_ready block was entered.
AppInstallation_WaitDiags(p, d) ==
    IF p.waitForReady /\ ~p.confirm
    THEN AddWarning(d, "Invalid Configuration")
    ELSE d

\* Variant: Create confirms whatever the plan says.
AppInstallation_Create_ShouldConfirm_Always(p) == TRUE

\* `if data.Confirm.ValueBool()`: Create confirms whenever confirm is planned.
AppInstallation_Create_ShouldConfirm(p) == p.confirm

\* Variant: the id is not saved right after the create call.
Create_SaveId_Deferred(st, id) == st

\* `data.ID = ...; resp.State.Set(ctx, &data)` right after the create call.
Create_SaveId(st, id) == [st EXCEPT !.present = "set", !.id = id]

\* The create call and the first state write.
AppInstallation_Create_Call ==
    /\ op = "AppInstallation.Create"
    /\ pc = "create"
    /\ \E r \in CreateResponses :
          /\ RecordCall("create", r, EmptyFields)
          /\ IF r.err # "nil"
             THEN /\ diags' = AddError(diags, "Client Error", "-")
                  /\ pc' = "done"
                  /\ UNCHANGED <<state, createdId, fields>>
             ELSE /\ state' = Create_SaveId(state, r.id)
                  /\ fields' = [fields EXCEPT !.state = fields.planned]
                  /\ createdId' = r.id
                  /\ diags' = diags
                  /\ pc' = "create_config"
    /\ NoFetch /\ NoConfirm /\ NoPoll
    /\ UNCHANGED <<op, plan, config, flow, api, initStatus, canConfirm>>

\* The ConfigFields of Create's request: ValueString() of every planned
\* element, the empty string for a null element.
Create_RequestFields(planned) ==
    [k \in DOMAIN planned |-> IF planned[k] = "null" THEN "" ELSE planned[k]]

\* The update-config call, made when config_fields is not empty.
AppInstallation_Create_Config ==
    /\ op = "AppInstallation.Create"
    /\ pc = "create_config"
    /\ IF ~plan.configEmpty
       THEN \E r \in MutationResponses :
               /\ RecordCall("update_config", r, Create_RequestFields(fields.planned))
               /\ IF r.err # "nil"
                  THEN /\ diags' = AddError(diags, "Client Error", "-")
                       /\ pc' = "done"
                  ELSE /\ diags' = diags
                       /\ pc' = "create_confirm"
       ELSE /\ diags' = diags
            /\ pc' = "create_confirm"
            /\ UNCHANGED calls
    /\ NoFetch /\ NoConfirm /\ NoPoll
    /\ UNCHANGED <<op, plan, config, flow, api, fields, createdId, initStatus, canConfirm, state>>

\* The confirm block and the wait_for_ready block up to the call of
\* WaitForAppInstallationReady.
AppInstallation_Create_Confirm ==
    /\ op = "AppInstallation.Create"
    /\ pc = "create_confirm"
    /\ IF AppInstallation_Create_ShouldConfirm(plan)
       THEN \E e \in ConfirmResults(op) :
               LET r == ConfirmAppInstallation(e, diags) IN
               /\ RecordConfirm(e)
               /\ IF r.ok
                  THEN /\ diags' = AppInstallation_WaitDiags(plan, r.diags)
                       /\ pc' = AppInstallation_WaitTarget(plan)
                  ELSE /\ diags' = r.diags
                       /\ pc' = "done"
       ELSE /\ NoConfirm
            /\ UNCHANGED calls
            /\ diags' = AppInstallation_WaitDiags(plan, diags)
            /\ pc' = AppInstallation_WaitTarget(plan)
    /\ NoFetch /\ NoPoll
    /\ UNCHANGED <<op, plan, config, flow, api, fields, createdId, initStatus, canConfirm, state>>

\* ------------------------------------------------------------------------
\* AppInstallationResource.Update
\* (data.Confirm is set to config.Confirm before its only later use, so the
\* handler's tests on either read the planned value)

\* Variant: the draft flag of the mutation responses is ignored.
AppInstallation_Update_ShouldConfirm_IgnoresDraft(can, p) == p.confirm

\* `if canConfirm && config.Confirm.ValueBool()`.
AppInstallation_Update_ShouldConfirm(can, p) == can /\ p.confirm

\* The update-metadata call, made when name or style_override changed.
AppInstallation_Update_Metadata ==
    /\ op = "AppInstallation.Update"
    /\ pc = "update_metadata"
    /\ IF plan.nameChanged
       THEN \E r \in MutationResponses :
               /\ RecordCall("update_metadata", r, EmptyFields)
               /\ IF r.err # "nil"
                  THEN /\ diags' = AddError(diags, "Client Error", "-")
                       /\ pc' = "done"
                       /\ UNCHANGED canConfirm
                  ELSE /\ canConfirm' = r.draft
                       /\ diags' = diags
                       /\ pc' = "update_version"
       ELSE /\ pc' = "update_version"
            /\ UNCHANGED <<diags, canConfirm, calls>>
    /\ NoFetch /\ NoConfirm /\ NoPoll
    /\ UNCHANGED <<op, plan, config, flow, api, fields, createdId, initStatus, state>>

\* The update-version call, made when app changed.
AppInstallation_Update_Version ==
    /\ op = "AppInstallation.Update"
    /\ pc = "update_version"
    /\ IF plan.appChanged
       THEN \E r \in MutationResponses :
               /\ RecordCall("update_version", r, EmptyFields)
               /\ IF r.err # "nil"
                  THEN /\ diags' = AddError(diags, "Client Error", "-")
                       /\ pc' = "done"
                       /\ UNCHANGED canConfirm
                  ELSE /\ canConfirm' = r.draft
                       /\ diags' = diags
                       /\ pc' = "update_config"
       ELSE /\ pc' = "update_config"
            /\ UNCHANGED <<diags, canConfirm, calls>>
    /\ NoFetch /\ NoConfirm /\ NoPoll
    /\ UNCHANGED <<op, plan, config, flow, api, fields, createdId, initStatus, state>>

\* Variant: the update-config request is sent for an empty planned map too.
Update_SendsConfig_Always(planned) == TRUE

\* `len(config.ConfigFields.Elements()) != 0`: the request is sent only for a
\* planned map that is not empty.
Update_SendsConfig(planned) == DOMAIN planned # {}

\* The ConfigFields of Update's request: the planned elements, nil for a null
\* element.
Update_RequestFields(planned) == planned

\* The update-config call, made when config_fields changed and the planned
\* map is not empty.
AppInstallation_Update_Config ==
    /\ op = "AppInstallation.Update"
    /\ pc = "update_config"
    /\ IF plan.configChanged
       THEN IF Update_SendsConfig(fields.planned)
            THEN \E r \in MutationResponses :
                    /\ RecordCall("update_config", r, Update_RequestFields(fields.planned))
                    /\ IF r.err # "nil"
                       THEN /\ diags' = AddError(diags, "Client Error", "-")
                            /\ pc' = "done"
                            /\ UNCHANGED <<canConfirm, fields>>
                       ELSE /\ canConfirm' = r.draft
                            /\ fields' = [fields EXCEPT !.state = fields.planned]
                            /\ diags' = diags
                            /\ pc' = "update_confirm"
            ELSE /\ fields' = [fields EXCEPT !.state = fields.planned]
                 /\ pc' = "update_confirm"
                 /\ UNCHANGED <<diags, canConfirm, calls>>
       ELSE /\ pc' = "update_confirm"
            /\ UNCHANGED <<diags, canConfirm, calls, fields>>
    /\ NoFetch /\ NoConfirm /\ NoPoll
    /\ UNCHANGED <<op, plan, config, flow, api, createdId, initStatus, state>>

\* The confirm block and the wait_for_ready block up to the call of
\* WaitForAppInstallationReady.
AppInstallation_Update_Confirm ==
    /\ op = "AppInstallation.Update"
    /\ pc = "update_confirm"
    /\ IF AppInstallation_Update_ShouldConfirm(canConfirm, plan)
       THEN \E e \in ConfirmResults(op) :
               LET r == ConfirmAppInstallation(e, diags) IN
               /\ RecordConfirm(e)
               /\ IF r.ok
                  THEN /\ diags' = AppInstallation_WaitDiags(plan, r.diags)
                       /\ pc' = AppInstallation_WaitTarget(plan)
                  ELSE /\ diags' = r.diags
                       /\ pc' = "done"
       ELSE /\ NoConfirm
            /\ UNCHANGED calls
            /\ diags' = AppInstallation_WaitDiags(plan, diags)
            /\ pc' = AppInstallation_WaitTarget(plan)
    /\ NoFetch /\ NoPoll
    /\ UNCHANGED <<op, plan, config, flow, api, fields, createdId, initStatus, canConfirm, state>>

\* ------------------------------------------------------------------------
\* AppInstallationResource.Delete and WaitForDeleted

\* The delete call.
AppInstallation_Delete_Call ==
    /\ op = "AppInstallation.Delete"
    /\ pc = "delete"
    /\ \E e \in DeleteResults :
          IF e # "nil"
          THEN /\ diags' = AddError(diags, "Client Error", "-")
               /\ pc' = "done"
          ELSE /\ diags' = diags
               /\ pc' = "wait_deleted"
    /\ NoFetch /\ NoConfirm /\ NoPoll
    /\ UNCHANGED <<op, plan, config, flow, api, calls, fields, createdId, initStatus, canConfirm, state>>

\* Variant: every fetch error taken as "the installation is gone".
WaitForDeletedErrorIsSuccess_AnyError(e) == TRUE

\* Variant: no fetch error taken as "the installation is gone".
WaitForDeletedErrorIsSuccess_Never(e) == FALSE

\* `err.Error() == "not found"`: the fetch error that means success.
WaitForDeletedErrorIsSuccess(e) == e = NotFound

\* Variant: "ready" tolerated like "draining".
WaitForDeletedUnexpected_ReadyTolerated(s) == s \notin {"draining", "drained", "ready"}

\* Variant: "drained" taken as a wrong outcome of the deletion.
WaitForDeletedUnexpected_DrainedUnexpected(s) == s # "draining"

\* `status != "draining" && status != "drained"`: the deletion went wrong.
WaitForDeletedUnexpected(s) == s # "draining" /\ s # "drained"

\* Variant: one attempt too many.
WaitForDeletedLoops_OffByOne(n) == n <= maxPollRetries

\* The loop condition of `for i := range maxPollRetries`.
WaitForDeletedLoops(n) == n < maxPollRetries

\* One iteration of the loop of WaitForDeleted.
WaitForDeleted_Attempt ==
    /\ pc = "wait_deleted"
    /\ WaitForDeletedLoops(i)
    /\ \E resp \in StatusResponses :
          /\ RecordFetch(resp, TRUE)
          /\ IF resp.err # "nil"
             THEN /\ diags' = IF WaitForDeletedErrorIsSuccess(resp.err)
                              THEN diags
                              ELSE AddError(diags, "Client Error", "-")
                  /\ pc' = "done"
                  /\ UNCHANGED <<status, i, sleeps>>
             ELSE /\ status' = resp.status
                  /\ IF WaitForDeletedUnexpected(resp.status)
                     THEN /\ diags' = AddError(diags, "App Installation Deletion Failed", resp.status)
                          /\ pc' = "done"
                          /\ UNCHANGED <<i, sleeps>>
                     ELSE /\ sleeps' = sleeps + 1
                          /\ i' = i + 1
                          /\ UNCHANGED <<diags, pc>>
    /\ NoConfirm
    /\ UNCHANGED <<op, plan, config, flow, api, calls, fields, createdId, initStatus, canConfirm, ret, state>>

\* The loop of WaitForDeleted ran out of attempts.
WaitForDeleted_Timeout ==
    /\ pc = "wait_deleted"
    /\ ~WaitForDeletedLoops(i)
    /\ diags' = AddError(diags, "App Installation Deletion Timeout", status)
    /\ pc' = "done"
    /\ NoFetch /\ NoConfirm
    /\ UNCHANGED <<op, plan, config, flow, api, calls, fields, createdId, initStatus, status, i, ret, canConfirm, state, sleeps>>

\* ------------------------------------------------------------------------
\* The Read handlers

\* The fetch error on which Read calls resp.State.RemoveResource: the
\* app-installation handlers compare it with "not found", the two entity
\* handlers remove the resource on every error.
Read_ErrorRemoves(operation, e) ==
    IF operation \in EntityReads THEN TRUE ELSE e = NotFound

\* Read stores the fetched status (AppInstallationResource has no status
\* attribute).
Read_WritesStatus(operation) == operation # "AppInstallation.Read"

\* The config_fields a GetAppInstallationResponse can carry.
Read_ServerFields(operation) ==
    IF operation = "AppInstallation.Read" THEN ServerFieldMaps ELSE {EmptyFields}

\* Variant: every field the server returned is stored.
Read_FilterFields_KeepAll(prior, server) == server

\* "Only include fields that were originally in the plan/state."
Read_FilterFields(prior, server) ==
    [k \in (DOMAIN server) \cap (DOMAIN prior) |-> server[k]]

\* Read: the fetch, then RemoveResource, AddError or State.Set.
Read_Fetch ==
    /\ op \in ReadOperations
    /\ pc = "read"
    /\ \E resp \in StatusResponses, sf \in Read_ServerFields(op) :
          /\ RecordFetch(resp, FALSE)
          /\ IF resp.err # "nil"
             THEN /\ IF Read_ErrorRemoves(op, resp.err)
                     THEN /\ state' = [state EXCEPT !.present = "removed"]
                          /\ diags' = diags
                     ELSE /\ diags' = AddError(diags, "Client Error", "-")
                          /\ state' = state
                  /\ fields' = fields
             ELSE /\ state' = IF Read_WritesStatus(op)
                              THEN [state EXCEPT !.status = resp.status]
                              ELSE state
                  /\ fields' = [fields EXCEPT
                                   !.server = sf,
                                   !.state = Read_FilterFields(fields.state, sf)]
                  /\ diags' = diags
    /\ pc' = "done"
    /\ NoConfirm /\ NoPoll
    /\ UNCHANGED <<op, plan, config, flow, api, calls, createdId, initStatus, canConfirm>>

\* ------------------------------------------------------------------------
\* waitForReadyValidator

\* types.Bool.IsUnknown
IsUnknown(v) == v = "unknown"

\* types.Bool.ValueBool: false for a null and for an unknown value.
ValueBool(v) == v = "true"

\* The test of ValidateResource on the configuration cfg.
waitForReadyValidator_Rejects(cfg) ==
    IF IsUnknown(cfg.waitForReady) \/ IsUnknown(cfg.confirm)
    THEN FALSE
    ELSE ValueBool(cfg.waitForReady) /\ ~ValueBool(cfg.confirm)

waitForReadyValidator_ValidateResource ==
    /\ op = "AppInstallation.ValidateConfig"
    /\ pc = "validate"
    /\ diags' = IF waitForReadyValidator_Rejects(config)
                THEN AddError(diags, "Invalid configuration", "-")
                ELSE diags
    /\ pc' = "done"
    /\ NoFetch /\ NoConfirm /\ NoPoll
    /\ UNCHANGED <<op, plan, config, flow, api, calls, fields, createdId, initStatus, canConfirm, state>>

\* ------------------------------------------------------------------------
\* FlowResource.Create

\* Errors of the apply_config call ("nil": success).
ApplyConfigResults == {"nil", StatusCodeError}

\* Errors of getFlowDetails ("nil": success).
FlowDetailsResults == {"nil"} \cup FetchErrors

\* The create call and the first state write.
Flow_Create_Call ==
    /\ op = "Flow.Create"
    /\ pc = "flow_create"
    /\ \E r \in CreateResponses :
          IF r.err # "nil"
          THEN /\ diags' = AddError(diags, "Client Error", "-")
               /\ pc' = "done"
               /\ UNCHANGED <<state, createdId>>
          ELSE /\ state' = Create_SaveId(state, r.id)
               /\ createdId' = r.id
               /\ diags' = diags
               /\ pc' = "flow_apply"
    /\ NoFetch /\ NoConfirm /\ NoPoll
    /\ UNCHANGED <<op, plan, config, flow, api, calls, fields, initStatus, canConfirm>>

\* The apply_config call.
Flow_Create_ApplyConfig ==
    /\ op = "Flow.Create"
    /\ pc = "flow_apply"
    /\ \E e \in ApplyConfigResults :
          IF e # "nil"
          THEN /\ diags' = AddError(diags, "Client Error", "-")
               /\ pc' = "done"
          ELSE /\ diags' = diags
               /\ pc' = "flow_details"
    /\ NoFetch /\ NoConfirm /\ NoPoll
    /\ UNCHANGED <<op, plan, config, flow, api, calls, fields, createdId, initStatus, canConfirm, state>>

\* getFlowDetails and the final state write (data.Id is the created id).
Flow_Create_Details ==
    /\ op = "Flow.Create"
    /\ pc = "flow_details"
    /\ \E e \in FlowDetailsResults :
          IF e # "nil"
          THEN /\ diags' = AddError(diags, "Unable to fetch flow details", "-")
               /\ state' = state
          ELSE /\ diags' = diags
               /\ state' = [state EXCEPT !.present = "set", !.id = createdId]
    /\ pc' = "done"
    /\ NoFetch /\ NoConfirm /\ NoPoll
    /\ UNCHANGED <<op, plan, config, flow, api, calls, fields, createdId, initStatus, canConfirm>>

\* ------------------------------------------------------------------------
\* FlowResource.ModifyPlan

\* resp.Plan after plan_changes answered without an error: the whole prior
\* state when there are no operations (`resp.Plan.Set(ctx, &data)`), else the
\* proposed plan with definition and app_installation_mapping from the config.
ModifyPlan_Planned(f, r) ==
    IF r.ops = 0
    THEN f.data
    ELSE [f.planned EXCEPT !.definition = f.cfg.definition,
                           !.mapping = f.cfg.mapping]

\* The early returns of ModifyPlan: nothing is changed and no call is made.
ModifyPlan_ReturnsEarly(f) ==
    \/ f.stateId = "null"
    \/ f.plannedId = "unknown"
    \/ f.cfg.definition = "unknown"
    \/ f.cfg.mapping = "unknown"

Flow_ModifyPlan ==
    /\ op = "Flow.ModifyPlan"
    /\ pc = "flow_modify_plan"
    /\ IF ModifyPlan_ReturnsEarly(flow)
       THEN /\ flow' =
                  IF flow.stateId = "null" \/ flow.plannedId = "unknown"
                  THEN flow
                  ELSE IF flow.cfg.definition = "unknown"
                  THEN [flow EXCEPT !.planned.definition = flow.cfg.definition]
                  ELSE [flow EXCEPT !.planned.mapping = flow.cfg.mapping]
            /\ diags' = diags
       ELSE \E r \in PlanChangesResponses :
               IF r.err # NoError
               THEN /\ diags' = AddError(diags, "Client Error", "-")
                    /\ flow' = [flow EXCEPT !.planCalled = TRUE, !.planResp = r]
               ELSE /\ flow' = [flow EXCEPT !.planCalled = TRUE, !.planResp = r,
                                            !.planned = ModifyPlan_Planned(flow, r)]
                    /\ diags' = IF r.ops > 0 /\ r.readable
                                THEN AddWarning(diags, "Flow Changes Planned")
                                ELSE diags
    /\ pc' = "done"
    /\ NoFetch /\ NoConfirm /\ NoPoll
    /\ UNCHANGED <<op, plan, config, api, calls, fields, createdId, initStatus,
                   canConfirm, state>>

\* ------------------------------------------------------------------------
\* FlowResource.Read

\* Variant: the export is taken only when plan_changes returned operations.
Read_TakesExport_OnlyOnOperations(r) == r.ops > 0

\* `planResp == nil || len(planResp.Plan.Operations) > 0` (CallFlowsAPI
\* returns a nil response with every error).
Read_TakesExport(r) == r.err # NoError \/ r.ops > 0

\* The null-definition test and getFlowDetails.
Flow_Read_Details ==
    /\ op = "Flow.Read"
    /\ pc = "flow_read"
    /\ IF flow.data.definition = "null"
       THEN /\ pc' = "done"
            /\ UNCHANGED <<diags, state>>
       ELSE \E e \in {NoError} \cup FlowCallErrors :
               IF e # NoError
               THEN /\ IF Contains(WrapFlowDetailsError(e), "not found")
                       THEN /\ state' = [state EXCEPT !.present = "removed"]
                            /\ diags' = diags
                       ELSE /\ diags' = AddError(diags, "Unable to fetch flow details", "-")
                            /\ state' = state
                    /\ pc' = "done"
               ELSE /\ pc' = "flow_read_plan"
                    /\ UNCHANGED <<diags, state>>
    /\ NoFetch /\ NoConfirm /\ NoPoll
    /\ UNCHANGED <<op, plan, config, flow, api, calls, fields, createdId,
                   initStatus, canConfirm>>

\* The plan_changes call and what Read does with its answer.
Flow_Read_PlanChanges ==
    /\ op = "Flow.Read"
    /\ pc = "flow_read_plan"
    /\ \E r \in PlanChangesResponses :
          IF r.err # NoError /\ Contains(r.err, "internal error")
          THEN /\ diags' = AddError(diags, "Client Error", "-")
               /\ flow' = [flow EXCEPT !.planCalled = TRUE, !.planResp = r]
               /\ pc' = "done"
          ELSE IF Read_TakesExport(r)
          THEN /\ flow' = [flow EXCEPT !.planCalled = TRUE, !.planResp = r]
               /\ diags' = diags
               /\ pc' = "flow_read_export"
          ELSE /\ flow' = [flow EXCEPT !.planCalled = TRUE, !.planResp = r,
                                       !.wrote = TRUE]
               /\ diags' = diags
               /\ pc' = "done"
    /\ NoFetch /\ NoConfirm /\ NoPoll
    /\ UNCHANGED <<op, plan, config, api, calls, fields, createdId, initStatus,
                   canConfirm, state>>

\* The export_definition call and the final State.Set.
Flow_Read_Export ==
    /\ op = "Flow.Read"
    /\ pc = "flow_read_export"
    /\ \E e \in {NoError} \cup FlowCallErrors :
          IF e # NoError
          THEN /\ diags' = AddError(diags, "Client Error", "-")
               /\ flow' = [flow EXCEPT !.exportErr = e]
          ELSE /\ diags' = diags
               /\ flow' = [flow EXCEPT !.exportErr = e, !.wrote = TRUE,
                                       !.data.definition = "exported"]
    /\ pc' = "done"
    /\ NoFetch /\ NoConfirm /\ NoPoll
    /\ UNCHANGED <<op, plan, config, api, calls, fields, createdId, initStatus,
                   canConfirm, state>>

\* ------------------------------------------------------------------------
\* CallFlowsAPI

\* fmt.Errorf("unexpected status code: %d", code)
UnexpectedStatusCode(code) ==
    CASE code = 404 -> "unexpected status code: 404"
      [] code = 500 -> StatusCodeError
      [] OTHER -> "unexpected status code: 200"

\* Variant: the status code is tested before the error field.
CallFlowsAPI_StatusCodeFirst(h) ==
    IF ~h.received THEN [data |-> "nil", err |-> "transport error"]
    ELSE IF ~h.decodes
    THEN [data |-> "nil", err |-> "could not json-decode response"]
    ELSE IF h.code # StatusOK
    THEN [data |-> "nil", err |-> UnexpectedStatusCode(h.code)]
    ELSE IF h.errorField # ""
    THEN [data |-> "nil", err |-> h.errorField]
    ELSE [data |-> "data", err |-> "nil"]

\* What CallFlowsAPI returns for the exchange h.
CallFlowsAPI(h) ==
    IF ~h.received THEN [data |-> "nil", err |-> "transport error"]
    ELSE IF ~h.decodes
    THEN [data |-> "nil", err |-> "could not json-decode response"]
    ELSE IF h.errorField # ""
    THEN [data |-> "nil", err |-> h.errorField]
    ELSE IF h.code # StatusOK
    THEN [data |-> "nil", err |-> UnexpectedStatusCode(h.code)]
    ELSE [data |-> "data", err |-> "nil"]

CallFlowsAPI_Call ==
    /\ op = "CallFlowsAPI"
    /\ pc = "call"
    /\ api' = [api EXCEPT !.result = CallFlowsAPI(api.http)]
    /\ pc' = "done"
    /\ NoFetch /\ NoConfirm /\ NoPoll
    /\ UNCHANGED <<op, plan, config, flow, calls, fields, createdId, initStatus,
                   canConfirm, state, diags>>

Next ==
    \/ AppInstallationConfirmation_InitialFetch
    \/ AppInstallationConfirmation_Confirm
    \/ Entity_InitialFetch
    \/ Entity_Confirm
    \/ Entity_Attempt
    \/ Entity_Timeout
    \/ AppInstallation_Create_Call
    \/ AppInstallation_Create_Config
    \/ AppInstallation_Create_Confirm
    \/ AppInstallation_Update_Metadata
    \/ AppInstallation_Update_Version
    \/ AppInstallation_Update_Config
    \/ AppInstallation_Update_Confirm
    \/ AppInstallation_Delete_Call
    \/ WaitForDeleted_Attempt
    \/ WaitForDeleted_Timeout
    \/ WaitForAppInstallationReady_Attempt
    \/ WaitForAppInstallationReady_Timeout
    \/ Read_Fetch
    \/ waitForReadyValidator_ValidateResource
    \/ Flow_Create_Call
    \/ Flow_Create_ApplyConfig
    \/ Flow_Create_Details
    \/ Flow_ModifyPlan
    \/ Flow_Read_Details
    \/ Flow_Read_PlanChanges
    \/ Flow_Read_Export
    \/ CallFlowsAPI_Call

Spec == Init /\ [][Next]_vars

\* ------------------------------------------------------------------------
\* Vocabulary of the properties

Last(d) == d[Len(d)]

TransitionalStatuses == {"draft", "in_progress"}

FailureStatuses == {"failed", "drifted", "draining_failed", "draining", "drained"}

FailureTitles ==
    {"App Installation Failed", "Entity Confirmation Failed",
     "Entity Lifecycle Confirmation Failed"}

UnknownTitles == {"Unknown App Installation Status", "Unknown Entity Status"}

TimeoutTitles ==
    {"App Installation Confirmation Timeout", "Entity Confirmation Timeout",
     "Entity Lifecycle Confirmation Timeout"}

NotADraftErrors == {AppInstallationNotADraft, EntityNotADraft}

\* The operation polls under the confirmation policy.
ConfirmationPolicy == op # "AppInstallation.Delete"

\* This step is one attempt of a poll loop of the confirmation policy.
ConfirmationPollStep ==
    /\ pc \in {"wait_ready", "poll"}
    /\ pollFetches' = pollFetches + 1

\* This step is one attempt of any poll loop.
AnyPollStep ==
    /\ pc \in {"wait_ready", "poll", "wait_deleted"}
    /\ pollFetches' = pollFetches + 1

\* This step appends exactly one error whose title is in titles and which
\* names the status st.
AddsError(titles, st) ==
    /\ Len(diags') = Len(diags) + 1
    /\ SubSeq(diags', 1, Len(diags)) = diags
    /\ Last(diags').severity = "error"
    /\ Last(diags').summary \in titles
    /\ Last(diags').status = st

\* ------------------------------------------------------------------------
\* C1: under the confirmation policy every poll attempt that fetched a status
\* reacts to it by the same table, whatever the string: "ready" ends the loop
\* without an error; "draft" and "in_progress" sleep once and go back to the
\* loop for the next attempt; "failed", "drifted", "draining_failed",
\* "draining" and "drained" end the loop with a failure error naming the
\* status; every other string ends the loop with an unknown-status error.
C1_Reaction ==
    (ConfirmationPollStep /\ lastResp'.err = "nil") =>
        LET s == lastResp'.status IN
        CASE s = "ready" ->
               /\ pc' = "done" /\ diags' = diags /\ sleeps' = sleeps
          [] s \in TransitionalStatuses ->
               /\ pc' = pc /\ i' = i + 1 /\ sleeps' = sleeps + 1 /\ diags' = diags
          [] s \in FailureStatuses ->
               /\ pc' = "done" /\ sleeps' = sleeps /\ AddsError(FailureTitles, s)
          [] OTHER ->
               /\ pc' = "done" /\ sleeps' = sleeps /\ AddsError(UnknownTitles, s)

C1_StatusTable == [][C1_Reaction]_vars

\* The empty string was fetched by the entity loop and ended it as unknown,
\* after some transitional attempts.
C1_Witness ==
    /\ op = "EntityConfirmation.Create"
    /\ pc = "done"
    /\ pollFetches > 1
    /\ lastResp = [err |-> "nil", status |-> ""]
    /\ Last(diags).summary = "Unknown Entity Status"

\* ------------------------------------------------------------------------
\* C2: a confirmation poll never makes more than 60 status fetches; when 60
\* fetched statuses were transitional it has made exactly 60 fetches and,
\* once returned, has reported a timeout error naming the last status seen.
C2_Budget ==
    ConfirmationPolicy =>
        /\ pollFetches <= 60
        /\ (transSeen = 60) => pollFetches = 60
        /\ (pc = "done" /\ transSeen = 60) =>
              /\ Last(diags).severity = "error"
              /\ Last(diags).summary \in TimeoutTitles
              /\ Last(diags).status = lastResp.status
              /\ lastResp.status \in TransitionalStatuses
              /\ Len(diags) = 1

\* WaitForAppInstallationReady timed out after 60 "in_progress"-or-"draft"
\* fetches, the last one being "in_progress".
C2_Witness ==
    /\ op = "AppInstallationConfirmation.Create"
    /\ pc = "done"
    /\ pollFetches = 60
    /\ transSeen = 60
    /\ Last(diags) = [severity |-> "error",
                      summary |-> "App Installation Confirmation Timeout",
                      status |-> "in_progress"]

\* ------------------------------------------------------------------------
\* C3: a confirmation poll that ended on a fetched "ready" was preceded by
\* k < 60 fetched statuses, all transitional: it made k+1 fetches, slept k
\* times, added no error and yields "ready" (the value returned by
\* WaitForAppInstallationReady, or the status the entity handlers record).
PollEndedReady ==
    /\ ConfirmationPolicy
    /\ pc = "done"
    /\ pollFetches > 0
    /\ lastResp = [err |-> "nil", status |-> "ready"]

C3_ReadyAfterK ==
    PollEndedReady =>
        /\ transSeen < 60
        /\ pollFetches = transSeen + 1
        /\ sleeps = transSeen
        /\ ~HasError(diags)
        /\ IF op \in EntityCreates THEN state.status = "ready" ELSE ret = "ready"

\* "ready" arrived on the last attempt of the budget (k = 59).
C3_Witness ==
    /\ PollEndedReady
    /\ op = "EntityConfirmation.Create"
    /\ transSeen = 59
    /\ sleeps = 59

\* ------------------------------------------------------------------------
\* C4: in every poll loop an attempt whose fetch fails with a transport
\* error ends the loop on that attempt: the handler returns, with a "Client
\* Error" diagnostic and without sleeping, and so makes no further fetch;
\* only "not found" inside WaitForDeleted returns without a diagnostic.
C4_Reaction ==
    (AnyPollStep /\ lastResp'.err # "nil") =>
        /\ pc' = "done"
        /\ sleeps' = sleeps
        /\ i' = i
        /\ IF pc = "wait_deleted" /\ lastResp'.err = NotFound
           THEN diags' = diags
           ELSE AddsError({"Client Error"}, "-")

C4_NoRetryOnTransportError == [][C4_Reaction]_vars

\* WaitForDeleted got a transport error other than "not found" after some
\* "draining" attempts.
C4_Witness ==
    /\ op = "AppInstallation.Delete"
    /\ pc = "done"
    /\ pollFetches > 1
    /\ lastResp.err = StatusCodeError
    /\ Last(diags).summary = "Client Error"

\* ------------------------------------------------------------------------
\* C5: a confirmation poll that fetches a status outside the recognized
\* vocabulary returns on that attempt with one error reported and without
\* sleeping (so with no later fetch), whatever the attempt number.
C5_Reaction ==
    (ConfirmationPollStep /\ lastResp'.err = "nil" /\ lastResp'.status \notin KnownStatuses) =>
        /\ pc' = "done"
        /\ sleeps' = sleeps
        /\ i' = i
        /\ Len(diags') = Len(diags) + 1
        /\ HasError(diags')
        /\ Last(diags').status = lastResp'.status

C5_UnknownStatusEndsPoll == [][C5_Reaction]_vars

\* "bogus_status" arrived on the 60th attempt of the lifecycle loop.
C5_Witness ==
    /\ op = "EntityLifecycleConfirmation.Create"
    /\ pc = "done"
    /\ pollFetches = 60
    /\ sleeps = 59
    /\ lastResp = [err |-> "nil", status |-> "bogus_status"]
    /\ HasError(diags)

C7_AtMostOneConfirm == confirms <= 1

\* The confirm call failed with a fatal error and the handler returned
\* without calling again.
C7_Witness ==
    /\ op = "AppInstallationConfirmation.Create"
    /\ pc = "done"
    /\ confirms = 1
    /\ confirmErr = StatusCodeError
    /\ HasError(diags)

\* ------------------------------------------------------------------------
\* C8: in every confirm flow, entity or app installation, a confirm call
\* failing with the "is not a draft" error adds no error and the operation
\* goes on as after a successful call; any other confirm error adds an error
\* and ends the operation before any polling.
C8_Reaction ==
    (confirms' = confirms + 1) =>
        IF confirmErr' \in NotADraftErrors \cup {"nil"}
        THEN /\ ~HasError(diags')
             /\ op \in EntityCreates => pc' = "poll"
             /\ op = "AppInstallationConfirmation.Create" =>
                   pc' = IF plan.waitForReady THEN "wait_ready" ELSE "done"
             /\ op \in {"AppInstallation.Create", "AppInstallation.Update"} =>
                   pc' = IF plan.waitForReady THEN "wait_ready" ELSE "done"
        ELSE /\ AddsError({"Client Error"}, "-")
             /\ pc' = "done"
             /\ pollFetches' = 0

C8_NotADraftIsBenign == [][C8_Reaction]_vars

\* ------------------------------------------------------------------------
\* C9: with waiting enabled, a confirmation Create whose first status fetch
\* succeeded and which was not stopped by a confirm error has run the poller
\* when it returns; and when it returns without an error the last status it
\* observed is "ready".
C9_WaitAlwaysPolls ==
    (op \in ConfirmationCreates /\ plan.waitForReady /\ pc = "done"
        /\ initStatus # "unset" /\ ~HasError(diags)) =>
        /\ pollFetches > 0
        /\ lastResp.status = "ready"

\* ------------------------------------------------------------------------
\* C10: AppInstallationConfirmationResource.Create with wait_for_ready =
\* false, first status "draft" and a successful confirm call has made exactly
\* one confirm call and no status fetch after it, has added no error and has
\* the pre-confirm status "draft" recorded in state.
C10_Case ==
    /\ op = "AppInstallationConfirmation.Create"
    /\ ~plan.waitForReady
    /\ initStatus = "draft"
    /\ confirmErr = "nil"

C10_NoWaitKeepsDraft ==
    C10_Case =>
        /\ pc = "done"
        /\ confirms = 1
        /\ fetches = 1
        /\ fetchesAfterConfirm = 0
        /\ diags = <<>>
        /\ state = [present |-> "set", id |-> "", status |-> "draft"]

\* The case of C10 after the handler returned.
C10_Witness ==
    /\ C10_Case
    /\ pc = "done"
    /\ confirms = 1

\* ------------------------------------------------------------------------
\* C11: when the first status a confirmation Create fetches is "ready" (with
\* waiting enabled), the operation issues no confirm call, never sleeps, adds
\* no error diagnostic and ends with status "ready" recorded in the state,
\* whatever the server answers afterwards.
C11_InitialReadyIsFinal ==
    (op \in ConfirmationCreates /\ plan.waitForReady /\ initStatus = "ready")
        => /\ confirms = 0
           /\ sleeps = 0
           /\ ~HasError(diags)
           /\ pc = "done" => (state.present = "set" /\ state.status = "ready")

\* ------------------------------------------------------------------------
\* C12: in WaitForDeleted a fetch that fails with "not found" ends the loop
\* as a success: the handler is done, no diagnostic was added, and the loop
\* slept once after each of the earlier fetches and not after this one.
C12_NotFoundIsSuccess ==
    (op = "AppInstallation.Delete" /\ lastResp.err = NotFound)
        => /\ pc = "done"
           /\ diags = <<>>
           /\ pollFetches = sleeps + 1
           /\ fetches = pollFetches

\* "draining" then "not found": two fetches, one sleep, nothing reported.
C12_Witness ==
    /\ op = "AppInstallation.Delete"
    /\ lastResp.err = NotFound
    /\ status = "draining"
    /\ pollFetches = 2
    /\ sleeps = 1
    /\ diags = <<>>

\* ------------------------------------------------------------------------
\* C13: in WaitForDeleted an attempt that fetched a status other than
\* "draining" and "drained" ends the loop on that attempt with a
\* deletion-failed error naming the status, without sleeping.
C13_Case ==
    /\ op = "AppInstallation.Delete"
    /\ pc = "wait_deleted"
    /\ pollFetches' = pollFetches + 1
    /\ lastResp'.err = "nil"
    /\ lastResp'.status \notin {"draining", "drained"}

C13_UnexpectedStatusFails ==
    [][C13_Case =>
          /\ pc' = "done"
          /\ AddsError({"App Installation Deletion Failed"}, lastResp'.status)
          /\ sleeps' = sleeps
          /\ i' = i]_vars

\* The third fetch of a deletion returned "ready".
C13_Witness ==
    /\ op = "AppInstallation.Delete"
    /\ pc = "done"
    /\ pollFetches = 3
    /\ sleeps = 2
    /\ lastResp = [err |-> "nil", status |-> "ready"]
    /\ Len(diags) = 1
    /\ Last(diags).summary = "App Installation Deletion Failed"
    /\ Last(diags).status = "ready"

\* ------------------------------------------------------------------------
\* C14 (as stated): under the deletion policy "drained" is a success, so a
\* WaitForDeleted whose fetches returned only "draining"/"drained" and whose
\* last fetch returned "drained" ends without an error.
C14_DrainedIsSuccess ==
    (/\ op = "AppInstallation.Delete"
     /\ pc = "done"
     /\ lastResp = [err |-> "nil", status |-> "drained"])
        => ~HasError(diags)

C14_DeletionStep ==
    /\ op = "AppInstallation.Delete"
    /\ pc = "wait_deleted"
    /\ pollFetches' = pollFetches + 1
    /\ lastResp'.err = "nil"
    /\ lastResp'.status \in {"draining", "drained"}

C14_ConfirmationStep ==
    /\ ConfirmationPolicy
    /\ ConfirmationPollStep
    /\ lastResp'.err = "nil"
    /\ lastResp'.status \in {"draining", "drained"}

\* C14 (amended): under the deletion policy "draining" and "drained" are both
\* transitional: the attempt adds no diagnostic, sleeps once and goes back to
\* the loop, so the only error such a deletion can end with is the timeout;
\* under the confirmation policy both statuses end the poll with a failure
\* naming the status.
C14_OppositeMeaning ==
    [][/\ C14_DeletionStep =>
             /\ pc' = "wait_deleted"
             /\ diags' = diags
             /\ sleeps' = sleeps + 1
             /\ i' = i + 1
       /\ C14_ConfirmationStep =>
             /\ pc' = "done"
             /\ AddsError(FailureTitles, lastResp'.status)
             /\ sleeps' = sleeps]_vars

\* A deletion still polling after "drained" was fetched.
C14_Witness ==
    /\ op = "AppInstallation.Delete"
    /\ pc = "wait_deleted"
    /\ lastResp = [err |-> "nil", status |-> "drained"]
    /\ pollFetches = 2
    /\ sleeps = 2
    /\ diags = <<>>

\* ------------------------------------------------------------------------
\* C16: a poll loop sleeps only between two consecutive fetches, so a loop
\* that has ended after n fetches has slept exactly n-1 times.
C16_SleepsBetweenFetches ==
    pc = "done" =>
        IF pollFetches = 0 THEN sleeps = 0 ELSE sleeps = pollFetches - 1

\* ------------------------------------------------------------------------
\* C15: WaitForDeleted never makes more than 60 fetches, and a WaitForDeleted
\* all of whose fetches returned "draining" has ended only after exactly 60
\* fetches, with the deletion-timeout error that names "draining" as its one
\* diagnostic.
C15_DeletionBudget ==
    op = "AppInstallation.Delete" =>
        /\ pollFetches <= maxPollRetries
        /\ (pc = "done" /\ pollFetches > 0 /\ drainingSeen = pollFetches)
              => /\ pollFetches = maxPollRetries
                 /\ Len(diags) = 1
                 /\ Last(diags).severity = "error"
                 /\ Last(diags).summary = "App Installation Deletion Timeout"
                 /\ Last(diags).status = "draining"

\* Sixty fetches, all "draining", and the handler has returned.
C15_Witness ==
    /\ op = "AppInstallation.Delete"
    /\ pc = "done"
    /\ pollFetches = maxPollRetries
    /\ drainingSeen = maxPollRetries
    /\ Last(diags).summary = "App Installation Deletion Timeout"

\* ------------------------------------------------------------------------
\* C17: in AppInstallationResource.Create and FlowResource.Create, from the
\* moment the create call has returned an id the state holds the resource
\* with that id, at every later point of the handler and at its end, whether
\* or not a later step failed.
C17_CreatedIdIsKept ==
    (op \in {"AppInstallation.Create", "Flow.Create"} /\ createdId # "unset")
        => /\ state.present = "set"
           /\ state.id = createdId

\* A Flow create whose apply_config call failed after the id was returned.
C17_Witness ==
    /\ op = "Flow.Create"
    /\ pc = "done"
    /\ createdId = "inst-1"
    /\ state.id = "inst-1"
    /\ Len(diags) = 1
    /\ Last(diags).summary = "Client Error"

\* ------------------------------------------------------------------------
\* C18: a Read removes the resource from state only when the fetch failed
\* with "not found", and then adds no diagnostic; after any other fetch error
\* it has added an error and the prior state is still in place.
C18_ReadRemovesOnlyOnNotFound ==
    (op \in ReadOperations /\ pc = "done")
        => /\ state.present = "removed"
                => (lastResp.err = NotFound /\ diags = <<>>)
           /\ lastResp.err \notin {"nil", NotFound}
                => (HasError(diags) /\ state = InitialState(op))

\* The value an attribute takes after the schema default (true) is applied.
EffectiveWithDefault(v) == IF v = "null" THEN TRUE ELSE v = "true"

\* ------------------------------------------------------------------------
\* C19: the validator reports an error exactly when neither attribute is
\* unknown, the effective wait_for_ready is true and the effective confirm is
\* false, an unset attribute counting as its schema default, true.
C19_ValidatorUsesDefaults ==
    (op = "AppInstallation.ValidateConfig" /\ pc = "done")
        => (HasError(diags) <=>
               /\ config.waitForReady # "unknown"
               /\ config.confirm # "unknown"
               /\ EffectiveWithDefault(config.waitForReady)
               /\ ~EffectiveWithDefault(config.confirm))

\* ------------------------------------------------------------------------
\* C20: at the end of an AppInstallationConfirmationResource.Create whose
\* first fetch succeeded, the status in state is the last status the poll
\* observed when the poll ran and its last fetch succeeded, and the status of
\* the first fetch when the poll did not run.
C20_RecordsLastObserved ==
    (/\ op = "AppInstallationConfirmation.Create"
     /\ pc = "done"
     /\ initStatus # "unset")
        => /\ (pollFetches > 0 /\ lastResp.err = "nil")
                 => state.status = lastResp.status
           /\ pollFetches = 0 => state.status = initStatus

\* ------------------------------------------------------------------------
\* Vocabulary of the properties about the request log

\* The endpoints of the requests sent so far, in order.
CallNames == [k \in 1..Len(calls) |-> calls[k].call]

\* The request was answered by an error that makes the handler return.
CallFailed(c) ==
    IF c.call = "confirm" THEN ConfirmAppInstallationFails(c.err) ELSE c.err # "nil"

IsPrefix(a, b) == Len(a) <= Len(b) /\ SubSeq(b, 1, Len(a)) = a

\* The requests a Create with plan p sends when no step fails.
CreateCallsDue(p) ==
    <<"create">>
        \o (IF p.configEmpty THEN <<>> ELSE <<"update_config">>)
        \o (IF p.confirm THEN <<"confirm">> ELSE <<>>)

\* The mutation requests this Update has sent so far, in order.
MutationCalls ==
    SelectSeq(calls, LAMBDA c :
        c.call \in {"update_metadata", "update_version", "update_config"})

\* ------------------------------------------------------------------------
\* C21: AppInstallationResource.Create sends create, update-config (only for
\* a non-empty config_fields), confirm (only when confirm is true), in this
\* order, and polls only when wait_for_ready and confirm are both true; a
\* failed request is the last one sent, polling starts only after every due
\* request succeeded, and a Create that ended without a failed request has
\* sent every due request.
C21_FixedOrder ==
    op = "AppInstallation.Create" =>
        /\ IsPrefix(CallNames, CreateCallsDue(plan))
        /\ \A k \in 1..Len(calls) : CallFailed(calls[k]) => k = Len(calls)
        /\ fetches = pollFetches
        /\ pollFetches > 0 =>
              /\ plan.waitForReady /\ plan.confirm
              /\ CallNames = CreateCallsDue(plan)
              /\ \A k \in 1..Len(calls) : ~CallFailed(calls[k])
        /\ (pc = "done" /\ \A k \in 1..Len(calls) : ~CallFailed(calls[k])) =>
              /\ CallNames = CreateCallsDue(plan)
              /\ (plan.waitForReady /\ plan.confirm) => pollFetches > 0

\* A Create that sent all three requests and then polled.
C21_Witness ==
    /\ op = "AppInstallation.Create"
    /\ CallNames = <<"create", "update_config", "confirm">>
    /\ pollFetches = 2
    /\ pc = "done"

\* ------------------------------------------------------------------------
\* C22: once AppInstallationResource.Update is past its confirm block, it has
\* sent a confirm call if and only if the planned confirm is true and the
\* last mutation request it sent (metadata, version or config) succeeded with
\* draft = true; it never sends more than one.
C22_ConfirmIffLastDraft ==
    (op = "AppInstallation.Update" /\ pc \in {"wait_ready", "done"}) =>
        /\ confirms <= 1
        /\ confirms = 1 <=>
              /\ plan.confirm
              /\ Len(MutationCalls) > 0
              /\ Last(MutationCalls).err = "nil"
              /\ Last(MutationCalls).draft

\* An earlier mutation returned draft = true, the last one draft = false, and
\* no confirm call was sent although confirm is planned.
C22_Witness ==
    /\ op = "AppInstallation.Update"
    /\ pc = "done"
    /\ plan.confirm
    /\ Len(MutationCalls) = 2
    /\ MutationCalls[1].draft
    /\ MutationCalls[2].err = "nil"
    /\ ~MutationCalls[2].draft
    /\ confirms = 0

\* ------------------------------------------------------------------------
\* C23: in AppInstallationResource.Update, when config_fields differs between
\* prior state and plan and the state holds the planned config_fields, an
\* update-config request has succeeded that carried every planned key with
\* its planned value and every key of the prior state that is absent from the
\* plan with a null value.
C23_ConfigChangeReachesServer ==
    (/\ op = "AppInstallation.Update"
     /\ plan.configChanged
     /\ fields.state = fields.planned)
        => \E k \in 1..Len(calls) :
              /\ calls[k].call = "update_config"
              /\ calls[k].err = "nil"
              /\ \A key \in DOMAIN fields.planned :
                    /\ key \in DOMAIN calls[k].fields
                    /\ calls[k].fields[key] = fields.planned[key]
              /\ \A key \in (DOMAIN fields.prior) \ (DOMAIN fields.planned) :
                    /\ key \in DOMAIN calls[k].fields
                    /\ calls[k].fields[key] = "null"

\* ------------------------------------------------------------------------
\* C24: AppInstallationResource.Read never adds a key to config_fields, and
\* after a successful Read the keys of config_fields in state are exactly the
\* keys of the prior state that the server returned, each with the server's
\* value.
C24_ReadKeepsKnownKeys ==
    op = "AppInstallation.Read" =>
        /\ (DOMAIN fields.state) \subseteq (DOMAIN fields.prior)
        /\ (pc = "done" /\ lastResp.err = "nil") =>
              /\ DOMAIN fields.state = (DOMAIN fields.prior) \cap (DOMAIN fields.server)
              /\ \A k \in DOMAIN fields.state : fields.state[k] = fields.server[k]

\* The server returned "a" and "b", the state had only "a".
C24_Witness ==
    /\ op = "AppInstallation.Read"
    /\ pc = "done"
    /\ lastResp.err = "nil"
    /\ fields.prior = FieldMap({"a"}, "x")
    /\ fields.server = FieldMap({"a", "b"}, "y")
    /\ fields.state = FieldMap({"a"}, "y")

\* ------------------------------------------------------------------------
\* Vocabulary of the properties about WaitForAppInstallationReady

\* Number of error diagnostics in d.
ErrorCount(d) == Cardinality({k \in 1..Len(d) : d[k].severity = "error"})

\* WaitForAppInstallationReady has returned.
WaitReturned == ret # "unset"

\* It returned from the transport-error path or from the timeout path.
WaitReturnedOnErrorOrTimeout ==
    \/ lastResp.err # "nil"
    \/ /\ Len(diags) > 0
       /\ Last(diags).summary = "App Installation Confirmation Timeout"

\* The errors it added and the value it returned, path by path (no caller
\* has added an error before it calls the function).
WaitPaths ==
    /\ ErrorCount(diags) =
          IF lastResp.err = "nil" /\ lastResp.status = "ready" THEN 0 ELSE 1
    /\ IF WaitReturnedOnErrorOrTimeout
       THEN ret = ""
       ELSE ret = lastResp.status

\* C25 (as stated): WaitForAppInstallationReady adds one error on every
\* return path but the "ready" one, returns the last observed status on the
\* ready, terminal and unknown paths, and returns the empty string on the
\* transport-error and timeout paths and on no other path.
C25_EmptyExactlyOnErrorOrTimeout ==
    WaitReturned =>
        /\ WaitPaths
        /\ ret = "" => WaitReturnedOnErrorOrTimeout

\* C25 (amended): WaitForAppInstallationReady adds one error on every return
\* path but the "ready" one, returns the empty string on the transport-error
\* and timeout paths and the last observed status on every other path; that
\* status, hence the result, is empty too when the server reported an empty
\* status, which is then reported as unknown.
C25_ReturnPaths ==
    WaitReturned =>
        /\ WaitPaths
        /\ (ret = "" /\ ~WaitReturnedOnErrorOrTimeout) =>
              /\ lastResp = [err |-> "nil", status |-> ""]
              /\ Last(diags).summary = "Unknown App Installation Status"

\* The empty string returned from the unknown-status path.
C25_Witness ==
    /\ WaitReturned
    /\ ret = ""
    /\ pollFetches = 2
    /\ lastResp = [err |-> "nil", status |-> ""]
    /\ Last(diags).summary = "Unknown App Installation Status"

\* ------------------------------------------------------------------------
\* C26: EntityConfirmationResource.Create and
\* EntityLifecycleConfirmationResource.Create write state only on the path
\* that observes "ready": a written state holds the status "ready", was
\* written by the last step of the handler on a fetch that returned "ready",
\* and comes with no error; whenever an error was added no state was written.
C26_StateOnlyOnReady ==
    op \in EntityCreates =>
        /\ state # InitialState(op) =>
              /\ state.present = "set"
              /\ state.status = "ready"
              /\ lastResp = [err |-> "nil", status |-> "ready"]
              /\ pc = "done"
              /\ ~HasError(diags)
        /\ HasError(diags) => state = InitialState(op)
        /\ (pc = "done" /\ ~HasError(diags)) => state.status = "ready"

\* A confirmed entity that became "ready" on the second poll.
C26_Witness ==
    /\ op = "EntityConfirmation.Create"
    /\ pc = "done"
    /\ confirms = 1
    /\ pollFetches = 2
    /\ state.present = "set"
    /\ state.status = "ready"

\* ------------------------------------------------------------------------
\* C27: FlowResource.ModifyPlan leaves the planned name and project_id as
\* Terraform computed them from the configuration.
C27_NameAndProjectKept ==
    (op = "Flow.ModifyPlan" /\ pc = "done")
        => /\ flow.planned.name = flow.cfg.name
           /\ flow.planned.project = flow.cfg.project

\* ------------------------------------------------------------------------
\* Vocabulary of the properties about FlowResource.Read

\* Read stored the backend export as the definition.
DefinitionReplaced == flow.wrote /\ flow.data.definition = "exported"

\* plan_changes failed with an error not containing "internal error", or
\* returned at least one operation.
PlanCallsForExport ==
    \/ flow.planResp.err # NoError /\ ~Contains(flow.planResp.err, "internal error")
    \/ flow.planResp.err = NoError /\ flow.planResp.ops > 0

FlowReadPlanned == op = "Flow.Read" /\ pc = "done" /\ flow.planCalled

\* C28 (as stated): a FlowResource.Read that got an answer from plan_changes
\* has replaced the definition in state by the export if and only if
\* plan_changes failed without "internal error" or returned operations.
C28_ReplacedIffPlanCalls ==
    FlowReadPlanned => (DefinitionReplaced <=> PlanCallsForExport)

\* C28 (amended): such a Read has replaced the definition by the export if
\* and only if plan_changes failed without "internal error" or returned
\* operations, and the export call succeeded; when the export call failed it
\* added an error and wrote no state; with zero operations it wrote the state
\* with the stored definition; with an "internal error" it added an error and
\* wrote no state.
C28_ReadDefinition ==
    FlowReadPlanned =>
        /\ DefinitionReplaced <=> (PlanCallsForExport /\ flow.exportErr = NoError)
        /\ (flow.exportErr # <<"unset">>) <=> PlanCallsForExport
        /\ (PlanCallsForExport /\ flow.exportErr # NoError) =>
              (HasError(diags) /\ ~flow.wrote)
        /\ (flow.planResp.err = NoError /\ flow.planResp.ops = 0) =>
              (flow.wrote /\ flow.data.definition = "d0" /\ ~HasError(diags))
        /\ Contains(flow.planResp.err, "internal error") =>
              (HasError(diags) /\ ~flow.wrote)

\* plan_changes failed with a status-code error and the export was stored.
C28_Witness ==
    /\ FlowReadPlanned
    /\ flow.planResp.err = <<"unexpected status code: 500">>
    /\ flow.exportErr = NoError
    /\ DefinitionReplaced
    /\ diags = <<>>

\* ------------------------------------------------------------------------
\* C29: CallFlowsAPI returns data and no error if and only if a response
\* body was received that decodes as JSON, has an empty error field and came
\* with status 200; every non-200 response yields an error; a non-empty error
\* field is returned as the error message, whatever the status code.
C29_CallFlowsAPI ==
    (op = "CallFlowsAPI" /\ pc = "done") =>
        LET h == api.http
            r == api.result
        IN /\ (r.err = "nil") <=>
                 (h.received /\ h.decodes /\ h.errorField = "" /\ h.code = StatusOK)
           /\ (r.data # "nil") <=> (r.err = "nil")
           /\ (h.received /\ h.code # StatusOK) => r.err # "nil"
           /\ (h.received /\ h.decodes /\ h.errorField # "") => r.err = h.errorField

\* A 404 response whose error field is "not found".
C29_Witness ==
    /\ op = "CallFlowsAPI"
    /\ pc = "done"
    /\ api.http.code = 404
    /\ api.http.errorField = NotFound
    /\ api.result = [data |-> "nil", err |-> NotFound]

====
